---------------------------- MODULE Spec2Model ----------------------------
(***************************************************************************)
(* The player-lookup web application of                                    *)
(* "src/Working Code as of 11-4-25/app.py": the name resolver, the display *)
(* name lookup, the two-source hitting-stats normaliser and the POST       *)
(* /player request handler that orchestrates them.                         *)
(*                                                                         *)
(* Python values are tagged records, strings are sequences of characters,  *)
(* dicts are functions from keys to values, messages are sequences of      *)
(* text chunks (so that an f-string is a concatenation).                   *)
(***************************************************************************)
EXTENDS Integers, Sequences, FiniteSets, TLC

(***************************************************************************)
(* Bounds of the model.                                                    *)
(***************************************************************************)
MaxSplits == 2
MaxEntries == 2
MaxMatches == 2

(***************************************************************************)
(* Python values.                                                          *)
(***************************************************************************)
None == [t |-> "None"]
PyInt(n) == [t |-> "int", i |-> n]
PyStr(s) == [t |-> "str", s |-> s]
PyDict(d) == [t |-> "dict", d |-> d]
PyList(l) == [t |-> "list", l |-> l]
PyObj(a) == [t |-> "obj", a |-> a]

EmptyDict == [k \in {} |-> None]

\* bool(v)
Truthy(v) ==
  CASE v.t = "None" -> FALSE
    [] v.t = "int"  -> v.i # 0
    [] v.t = "str"  -> Len(v.s) > 0
    [] v.t = "dict" -> DOMAIN v.d # {}
    [] v.t = "list" -> Len(v.l) > 0
    [] OTHER        -> TRUE

\* d.get(k)
Get(d, k) == IF k \in DOMAIN d THEN d[k] ELSE None

\* d[k] = v on a copy of d
Put(d, k, v) == [x \in DOMAIN d \cup {k} |-> IF x = k THEN v ELSE d[x]]

\* a or b
PyOr(a, b) == IF Truthy(a) THEN a ELSE b

\* getattr(o, name, None) of an object
GetAttr(o, name) == IF o.t = "obj" /\ name \in DOMAIN o.a THEN o.a[name] ELSE None

\* hasattr(o, name)
HasAttr(o, name) == o.t = "obj" /\ name \in DOMAIN o.a

\* the outcome of a call: a returned value, or a raised exception's message
Ret(v) == [k |-> "return", v |-> v]
Raise(m) == [k |-> "raise", msg |-> m]

(***************************************************************************)
(* Strings: str.strip, str.isdigit, str.lower, the `in` substring test     *)
(* and int().                                                              *)
(***************************************************************************)
Whitespace == {" "}
AsciiDigits == {"0", "1", "2", "3", "4", "5", "6", "7", "8", "9"}
\* characters str.isdigit accepts and int() rejects (superscript two, U+00B2)
SuperscriptDigits == {"sup2"}

DigitValue(c) ==
  CASE c = "0" -> 0 [] c = "1" -> 1 [] c = "2" -> 2 [] c = "3" -> 3
    [] c = "4" -> 4 [] c = "5" -> 5 [] c = "6" -> 6 [] c = "7" -> 7
    [] c = "8" -> 8 [] c = "9" -> 9

RECURSIVE LStrip(_)
LStrip(s) == IF s # <<>> /\ Head(s) \in Whitespace THEN LStrip(Tail(s)) ELSE s

RECURSIVE RStrip(_)
RStrip(s) ==
  IF s # <<>> /\ s[Len(s)] \in Whitespace THEN RStrip(SubSeq(s, 1, Len(s) - 1)) ELSE s

\* s.strip()
Strip(s) == RStrip(LStrip(s))

\* s.isdigit()
IsDigit(s) == Len(s) > 0 /\ \A i \in 1..Len(s) : s[i] \in AsciiDigits \cup SuperscriptDigits

RECURSIVE DecimalValue(_)
DecimalValue(s) ==
  IF s = <<>> THEN 0
  ELSE 10 * DecimalValue(SubSeq(s, 1, Len(s) - 1)) + DigitValue(s[Len(s)])

\* int(v): the outcome, a Python int or a raised TypeError / ValueError
IntOf(v) ==
  CASE v.t = "int" -> Ret(v)
    [] v.t = "str" ->
         LET body == Strip(v.s) IN
         IF Len(body) > 0 /\ \A i \in 1..Len(body) : body[i] \in AsciiDigits
         THEN Ret(PyInt(DecimalValue(body)))
         ELSE Raise(<<"invalid literal for int() with base 10">>)
    [] OTHER -> Raise(<<"int() argument must be a string or a real number">>)

LowerChar(c) ==
  CASE c = "H" -> "h" [] c = "S" -> "s" [] c = "C" -> "c" [] c = "P" -> "p"
    [] c = "R" -> "r" [] OTHER -> c

\* s.lower()
Lower(s) == [i \in 1..Len(s) |-> LowerChar(s[i])]

\* sub in s
Contains(s, sub) ==
  \E i \in 0..(Len(s) - Len(sub)) : SubSeq(s, i + 1, i + Len(sub)) = sub

\* str(v) of a string or of a non-negative int
RECURSIVE DecimalDigits(_)
DecimalDigits(n) ==
  LET d == n % 10
      c == CHOOSE ch \in AsciiDigits : DigitValue(ch) = d
  IN IF n < 10 THEN <<c>> ELSE DecimalDigits(n \div 10) \o <<c>>

StrOf(v) == IF v.t = "str" THEN v.s ELSE IF v.t = "int" THEN DecimalDigits(v.i) ELSE <<"N","o","n","e">>

(***************************************************************************)
(* State.  mlb and statsapi are the module globals set by the guarded      *)
(* imports; the other variables are one HTTP request's form, response,     *)
(* flashed messages and the calls it made, and one direct call of a        *)
(* component function with what the two sources answered.                  *)
(***************************************************************************)
VARIABLES mlb, statsapi, request, response, flashes, calls, fetch, call

vars == <<mlb, statsapi, request, response, flashes, calls, fetch, call>>

Unused == [k |-> "unused"]

\* a try block that neither returned nor raised: control falls through
Fall == [k |-> "fall"]

\* a handler that lets the exception through
Propagate(o) == o

\* except Exception: pass
Swallow(o) == IF o.k = "raise" THEN Fall ELSE o

AttributeError == <<"object has no attribute">>
TypeError == <<"object is not iterable">>

(***************************************************************************)
(* resolve_player_id                                                       *)
(***************************************************************************)
\* the body of the first try block: ids = mlb.get_people_id(name) ...
ResolvePrimary(name, P) ==
  IF P.k = "raise" THEN P
  ELSE IF ~Truthy(P.v) THEN Fall
  ELSE IntOf(P.v.l[1])

\* candidate.get("id") alone
CandidateIdOnly(candidate) == Get(candidate.d, "id")

\* candidate.get("id") or candidate.get("player_id")
CandidateId(candidate) == PyOr(Get(candidate.d, "id"), Get(candidate.d, "player_id"))

\* the body of the second try block: matches = statsapi.lookup_player(name) ...
ResolveSecondary(name, L) ==
  IF L.k = "raise" THEN L
  ELSE IF ~Truthy(L.v) THEN Fall
  ELSE IF L.v.l[1].t # "dict" THEN Raise(AttributeError)
  ELSE IntOf(CandidateId(L.v.l[1]))

\* the outcome and the source calls made, for what the sources answer (P, L)
resolve_player_id(name, P, L) ==
  LET c1 == IF mlb THEN <<[fn |-> "mlb.get_people_id", arg |-> PyStr(name)]>> ELSE <<>>
      c2 == IF statsapi THEN <<[fn |-> "statsapi.lookup_player", arg |-> PyStr(name)]>> ELSE <<>>
      p == IF mlb THEN Swallow(ResolvePrimary(name, P)) ELSE Fall
      s == IF statsapi THEN Swallow(ResolveSecondary(name, L)) ELSE Fall
  IN IF p.k # "fall" THEN [out |-> p, calls |-> c1]
     ELSE IF s.k # "fall" THEN [out |-> s, calls |-> c1 \o c2]
     ELSE [out |-> Ret(None), calls |-> c1 \o c2]

(***************************************************************************)
(* get_display_name                                                        *)
(***************************************************************************)
\* people = mlb.get_people(personIds=[player_id]) ...
DisplayPrimary(player_id, G) ==
  IF G.k = "raise" THEN G
  ELSE IF Truthy(G.v) /\ HasAttr(G.v.l[1], "fullName") THEN Ret(G.v.l[1].a["fullName"])
  ELSE Fall

\* recs = statsapi.lookup_player(player_id) ...
DisplaySecondary(player_id, L) ==
  IF L.k = "raise" THEN L
  ELSE IF ~Truthy(L.v) THEN Fall
  ELSE IF L.v.l[1].t # "dict" THEN Raise(AttributeError)
  ELSE Ret(PyOr(Get(L.v.l[1].d, "fullName"),
                PyOr(Get(L.v.l[1].d, "name_display_first_last"), PyStr(StrOf(player_id)))))

get_display_name(player_id, G, L) ==
  LET c1 == IF mlb THEN <<[fn |-> "mlb.get_people", arg |-> player_id]>> ELSE <<>>
      c2 == IF statsapi THEN <<[fn |-> "statsapi.lookup_player", arg |-> player_id]>> ELSE <<>>
      p == IF mlb THEN Swallow(DisplayPrimary(player_id, G)) ELSE Fall
      s == IF statsapi THEN Swallow(DisplaySecondary(player_id, L)) ELSE Fall
  IN IF p.k # "fall" THEN [out |-> p, calls |-> c1]
     ELSE IF s.k # "fall" THEN [out |-> s, calls |-> c1 \o c2]
     ELSE [out |-> Ret(PyStr(StrOf(player_id))), calls |-> c1 \o c2]

(***************************************************************************)
(* Stats fetchers: the primary path.                                       *)
(***************************************************************************)
\* k.startswith("_") for the attribute names the model uses
StartsWithUnderscore(k) == k \in {"_raw"}

\* the row of one split (lines 98-105); a split without stat raises
SplitRow(split) ==
  IF ~HasAttr(split, "stat") \/ split.a["stat"].t # "obj" THEN Raise(AttributeError)
  ELSE
    LET stat == split.a["stat"].a
        row0 == [k \in {k \in DOMAIN stat : ~StartsWithUnderscore(k)} |-> stat[k]]
        team == GetAttr(split, "team")
        row1 == IF Truthy(team) THEN Put(row0, "team_name", GetAttr(team, "name")) ELSE row0
        season == GetAttr(split, "season")
        row2 == IF Truthy(season) THEN Put(row1, "season", season) ELSE row1
    IN Ret(row2)

\* for split in group_block.splits: ... rows.append(row)
RECURSIVE SplitRows(_)
SplitRows(splits) ==
  IF splits = <<>> THEN Ret(<<>>)
  ELSE LET r == SplitRow(Head(splits)) IN
       IF r.k = "raise" THEN r
       ELSE LET rest == SplitRows(Tail(splits)) IN
            IF rest.k = "raise" THEN rest ELSE Ret(<<r.v>> \o rest.v)

\* the same request built on `if not season` instead of `if season is None`
PrimaryCallTruthy(player_id, season) ==
  IF ~Truthy(season)
  THEN [fn |-> "mlb.get_player_stats", player_id |-> player_id, stats |-> <<"career">>,
        groups |-> <<"hitting">>]
  ELSE [fn |-> "mlb.get_player_stats", player_id |-> player_id, stats |-> <<"season">>,
        groups |-> <<"hitting">>, season |-> season]

\* what is asked of mlb.get_player_stats
PrimaryCall(player_id, season) ==
  IF season = None
  THEN [fn |-> "mlb.get_player_stats", player_id |-> player_id, stats |-> <<"career">>,
        groups |-> <<"hitting">>]
  ELSE [fn |-> "mlb.get_player_stats", player_id |-> player_id, stats |-> <<"season">>,
        groups |-> <<"hitting">>, season |-> season]

\* stat_dict.get("hitting", {}).get(scope) and the rows of its splits
PrimaryRows(stat_dict, scope) ==
  IF stat_dict.t # "dict" THEN Raise(AttributeError)
  ELSE LET hitting == IF "hitting" \in DOMAIN stat_dict.d THEN stat_dict.d["hitting"]
                      ELSE PyDict(EmptyDict)
       IN IF hitting.t # "dict" THEN Raise(AttributeError)
          ELSE LET group_block == Get(hitting.d, scope) IN
               IF ~Truthy(group_block) THEN Ret(PyList(<<>>))
               ELSE IF ~HasAttr(group_block, "splits") THEN Raise(AttributeError)
               ELSE IF group_block.a["splits"].t # "list" THEN Raise(TypeError)
               ELSE LET rows == SplitRows(group_block.a["splits"].l) IN
                    IF rows.k = "raise" THEN rows ELSE Ret(PyList(rows.v))

\* _get_hitting_stats_mlbstatsapi: the outcome and the source calls made
get_hitting_stats_mlbstatsapi(player_id, season, P) ==
  IF ~mlb THEN [out |-> Raise(<<"mlbstatsapi not available">>), calls |-> <<>>]
  ELSE LET scope == IF season = None THEN "career" ELSE "season" IN
       [out |-> IF P.k = "raise" THEN P ELSE PrimaryRows(P.v, scope),
        calls |-> <<PrimaryCall(player_id, season)>>]

(***************************************************************************)
(* Stats fetchers: the fallback path.                                      *)
(***************************************************************************)
\* what is asked of statsapi.player_stat_data
FallbackCall(player_id, season) ==
  IF season = None
  THEN [fn |-> "statsapi.player_stat_data", personId |-> player_id, group |-> "hitting",
        type |-> "career"]
  ELSE [fn |-> "statsapi.player_stat_data", personId |-> player_id, group |-> "hitting",
        type |-> "season", season |-> season]

\* the row of one split of the dict shape (lines 136-142)
DictSplitRow(s) ==
  IF s.t # "dict" THEN Raise(AttributeError)
  ELSE
    LET stat == PyOr(IF "stat" \in DOMAIN s.d THEN s.d["stat"] ELSE PyDict(EmptyDict),
                     PyDict(EmptyDict))
        team == Get(s.d, "team")
    IN IF stat.t # "dict" THEN Raise(TypeError)
       ELSE LET row1 == IF team.t = "dict" THEN Put(stat.d, "team_name", Get(team.d, "name"))
                        ELSE stat.d
                row2 == IF "season" \in DOMAIN s.d THEN Put(row1, "season", s.d["season"])
                        ELSE row1
            IN Ret(row2)

RECURSIVE DictSplitRows(_)
DictSplitRows(splits) ==
  IF splits = <<>> THEN Ret(<<>>)
  ELSE LET r == DictSplitRow(Head(splits)) IN
       IF r.k = "raise" THEN r
       ELSE LET rest == DictSplitRows(Tail(splits)) IN
            IF rest.k = "raise" THEN rest ELSE Ret(<<r.v>> \o rest.v)

\* the older dict-based shape (lines 129-145)
DictShapeRows(stats_block, season) ==
  LET key == IF season = None THEN "career" ELSE "season"
      holder == IF key \in DOMAIN stats_block.d THEN stats_block.d[key] ELSE PyDict(EmptyDict)
  IN IF holder.t # "dict" THEN Raise(AttributeError)
     ELSE LET splits == IF "splits" \in DOMAIN holder.d THEN holder.d["splits"]
                        ELSE PyList(<<>>)
          IN IF splits.t # "list" THEN Raise(TypeError)
             ELSE LET rows == DictSplitRows(splits.l) IN
                  IF rows.k = "raise" THEN rows ELSE Ret(PyList(rows.v))

sHitting == <<"h", "i", "t", "t", "i", "n", "g">>
sCareer == <<"c", "a", "r", "e", "e", "r">>
sSeason == <<"s", "e", "a", "s", "o", "n">>

\* a year test that lets every season through
YearFilterOff(sg_season, season) == Ret(FALSE)

\* lines 165-169: whether the entry is of another year (the int() may raise)
YearFilter(sg_season, season) ==
  IF season = None \/ sg_season = None THEN Ret(FALSE)
  ELSE IF IntOf(sg_season).k = "raise" THEN IntOf(sg_season)
  ELSE Ret(IntOf(sg_season).v.i # IntOf(season).v.i)

\* the team name read from 'team' before 'currentTeam'
EntryTeamNameSwapped(sg) ==
  LET name1 == IF Get(sg.d, "team").t = "dict"
               THEN Get(Get(sg.d, "team").d, "name") ELSE None
  IN IF ~Truthy(name1) /\ Get(sg.d, "currentTeam").t = "dict"
     THEN Get(Get(sg.d, "currentTeam").d, "name") ELSE name1

\* lines 177-181: the team name, from 'currentTeam' or else 'team'
EntryTeamName(sg) ==
  LET name1 == IF Get(sg.d, "currentTeam").t = "dict"
               THEN Get(Get(sg.d, "currentTeam").d, "name") ELSE None
  IN IF ~Truthy(name1) /\ Get(sg.d, "team").t = "dict"
     THEN Get(Get(sg.d, "team").d, "name") ELSE name1

\* lines 171-183: the row of an entry that passed the filters
EntryRow(sg, stat) ==
  LET row1 == IF Get(sg.d, "season") # None THEN Put(stat.d, "season", Get(sg.d, "season"))
              ELSE stat.d
  IN IF Truthy(EntryTeamName(sg)) THEN Put(row1, "team_name", EntryTeamName(sg)) ELSE row1

\* one entry of the list shape (lines 150-185): skipped, a row, or an exception
ListEntryRow(sg, season) ==
  IF sg.t # "dict" THEN Raise(AttributeError)
  ELSE
    LET grp == Lower(StrOf(PyOr(Get(sg.d, "group"), PyStr(<<>>))))
        typ == Lower(StrOf(PyOr(Get(sg.d, "type"), PyStr(<<>>))))
        other == YearFilter(Get(sg.d, "season"), season)
        stat == PyOr(Get(sg.d, "stats"), PyDict(EmptyDict))
    IN IF ~Contains(grp, sHitting) THEN Fall
       ELSE IF season = None /\ ~Contains(typ, sCareer) THEN Fall
       ELSE IF season # None /\ ~Contains(typ, sSeason) THEN Fall
       ELSE IF other.k = "raise" THEN other
       ELSE IF other.v THEN Fall
       ELSE IF stat.t # "dict" THEN Raise(TypeError)
       ELSE Ret(EntryRow(sg, stat))

RECURSIVE ListShapeRows(_, _)
ListShapeRows(entries, season) ==
  IF entries = <<>> THEN Ret(<<>>)
  ELSE LET r == ListEntryRow(Head(entries), season) IN
       IF r.k = "raise" THEN r
       ELSE LET rest == ListShapeRows(Tail(entries), season) IN
            IF rest.k = "raise" THEN rest
            ELSE IF r.k = "fall" THEN rest
            ELSE Ret(<<r.v>> \o rest.v)

\* lines 126-190: the rows of the answer `data`
FallbackRows(data, season) ==
  IF data.t # "dict" THEN Raise(AttributeError)
  ELSE LET stats_block == Get(data.d, "stats") IN
       IF stats_block.t = "dict" THEN DictShapeRows(stats_block, season)
       ELSE IF stats_block.t = "list"
       THEN LET rows == ListShapeRows(stats_block.l, season) IN
            IF rows.k = "raise" THEN rows ELSE Ret(PyList(rows.v))
       ELSE Ret(PyList(<<>>))

\* _get_hitting_stats_statsapi: the outcome and the source calls made
get_hitting_stats_statsapi(player_id, season, S) ==
  IF ~statsapi THEN [out |-> Raise(<<"statsapi not available">>), calls |-> <<>>]
  ELSE [out |-> IF S.k = "raise" THEN S ELSE FallbackRows(S.v, season),
        calls |-> <<FallbackCall(player_id, season)>>]

(***************************************************************************)
(* get_hitting_stats: the unified entry point.                             *)
(***************************************************************************)
\* a message that keeps the fallback's failure only
CombinedErrorFallbackOnly(e_primary, e_fallback) == <<"Fallback failed: ">> \o e_fallback

\* f"Primary failed: {e_primary}; Fallback failed: {e_fallback}"
CombinedError(e_primary, e_fallback) ==
  <<"Primary failed: ">> \o e_primary \o <<"; Fallback failed: ">> \o e_fallback

\* whether the except clause of the primary try hands over to the fallback
FallsBack(primary) == primary.k = "raise"

\* a unified entry point that also falls back when the primary returns no rows
get_hitting_stats_eager(player_id, season, P, S) ==
  LET p == get_hitting_stats_mlbstatsapi(player_id, season, P)
      f == get_hitting_stats_statsapi(player_id, season, IF S = Unused THEN Ret(None) ELSE S)
      cp == <<[fn |-> "_get_hitting_stats_mlbstatsapi"]>> \o p.calls
      cf == <<[fn |-> "_get_hitting_stats_statsapi"]>> \o f.calls
  IN IF p.out.k = "return" /\ Truthy(p.out.v)
     THEN [out |-> p.out, primary |-> p.out, fallback |-> Unused, calls |-> cp]
     ELSE IF f.out.k = "return"
     THEN [out |-> f.out, primary |-> p.out, fallback |-> f.out, calls |-> cp \o cf]
     ELSE [out |-> Raise(<<"Fallback failed: ">> \o f.out.msg),
           primary |-> p.out, fallback |-> f.out, calls |-> cp \o cf]

\* a unified entry point that answers no rows when both paths raise
get_hitting_stats_quiet(player_id, season, P, S) ==
  LET p == get_hitting_stats_mlbstatsapi(player_id, season, P)
      f == get_hitting_stats_statsapi(player_id, season, S)
      cp == <<[fn |-> "_get_hitting_stats_mlbstatsapi"]>> \o p.calls
      cf == <<[fn |-> "_get_hitting_stats_statsapi"]>> \o f.calls
  IN IF p.out.k = "return"
     THEN [out |-> p.out, primary |-> p.out, fallback |-> Unused, calls |-> cp]
     ELSE IF f.out.k = "return"
     THEN [out |-> f.out, primary |-> p.out, fallback |-> f.out, calls |-> cp \o cf]
     ELSE [out |-> Ret(PyList(<<>>)), primary |-> p.out, fallback |-> f.out,
           calls |-> cp \o cf]

\* out: the rows returned or the error raised; primary, fallback: how each
\* path ended ("unused" for a path not taken); calls: the paths entered and
\* the source calls made, in order
get_hitting_stats(player_id, season, P, S) ==
  LET p == get_hitting_stats_mlbstatsapi(player_id, season, P)
      f == get_hitting_stats_statsapi(player_id, season, S)
      cp == <<[fn |-> "_get_hitting_stats_mlbstatsapi"]>> \o p.calls
      cf == <<[fn |-> "_get_hitting_stats_statsapi"]>> \o f.calls
  IN IF ~FallsBack(p.out)
     THEN [out |-> p.out, primary |-> p.out, fallback |-> Unused, calls |-> cp]
     ELSE IF f.out.k = "return"
     THEN [out |-> f.out, primary |-> p.out, fallback |-> f.out, calls |-> cp \o cf]
     ELSE [out |-> Raise(CombinedError(p.out.msg, f.out.msg)),
           primary |-> p.out, fallback |-> f.out, calls |-> cp \o cf]

(***************************************************************************)
(* What the two sources may answer.                                        *)
(***************************************************************************)
SeqsUpTo(S, n) == UNION {[1..k -> S] : k \in 0..n}

sCal == <<"C", "a", "l">>
sCalR == <<"C", "a", "l", " ", "R">>
sSEA == <<"S", "E", "A">>
s2022 == <<"2", "0", "2", "2">>
s660271 == <<"6", "6", "0", "2", "7", "1">>
idRaleigh == PyInt(663728)
idOhtani == PyInt(660271)

SourceDown == Raise(<<"HTTP 503">>)

\* mlb.get_people_id(name): a list of ids (one entry is not an id at all)
IdVals == {idOhtani, PyStr(s660271), PyInt(0), None}
PeopleIdResponses == {SourceDown} \cup {Ret(PyList(q)) : q \in SeqsUpTo(IdVals, MaxMatches)}

\* statsapi.lookup_player(name): a list of candidate records
Candidates ==
  { PyDict([id |-> idRaleigh, fullName |-> PyStr(sCal)]),
    PyDict([player_id |-> idRaleigh]),
    PyDict([id |-> PyInt(0), player_id |-> idOhtani]),
    PyDict([id |-> PyStr(s660271)]),
    PyDict([fullName |-> PyStr(sCal)]),
    PyStr(sCal) }
LookupResponses ==
  {SourceDown, Ret(None)} \cup {Ret(PyList(q)) : q \in SeqsUpTo(Candidates, MaxMatches)}

\* mlb.get_people(personIds=[id]): a list of person objects
Persons ==
  { PyObj([fullName |-> PyStr(sCal)]),
    PyObj([fullName |-> None]),
    PyObj([id |-> idOhtani]) }
PeopleResponses == {SourceDown} \cup {Ret(PyList(q)) : q \in SeqsUpTo(Persons, MaxMatches)}

\* statsapi.lookup_player(id): a list of records
Recs ==
  { PyDict([fullName |-> PyStr(sCal)]),
    PyDict([name_display_first_last |-> PyStr(sCalR)]),
    PyDict([id |-> idOhtani]),
    PyStr(sCal) }
RecResponses ==
  {SourceDown, Ret(None)} \cup {Ret(PyList(q)) : q \in SeqsUpTo(Recs, MaxMatches)}

\* mlb.get_player_stats(...): a dict keyed by group, then by scope
Stat150 == [hits |-> PyInt(150)]
Stat20 == [hits |-> PyInt(20), _raw |-> None]
TeamSEA == [name |-> PyStr(sSEA)]
PrimarySplits ==
  { PyObj([stat |-> PyObj(Stat150), team |-> PyObj(TeamSEA), season |-> PyStr(s2022)]),
    PyObj([stat |-> PyObj(Stat20)]),
    PyObj([stat |-> PyObj(Stat20), team |-> PyObj([id |-> PyInt(136)]),
           season |-> PyStr(<<"2", "0", "2", "1">>)]) }
PrimaryBlocks ==
  {None, PyObj([group |-> PyStr(sHitting)]), PyObj([splits |-> PyList(<<PyObj(TeamSEA)>>)])}
    \cup {PyObj([splits |-> PyList(q)]) : q \in SeqsUpTo(PrimarySplits, MaxSplits)}
PrimaryResponses ==
  {SourceDown, Ret(PyDict(EmptyDict)), Ret(PyDict([pitching |-> PyDict(EmptyDict)]))}
    \cup {Ret(PyDict([hitting |-> PyDict([career |-> b])])) : b \in PrimaryBlocks}
    \cup {Ret(PyDict([hitting |-> PyDict([season |-> b])])) : b \in PrimaryBlocks}

\* statsapi.player_stat_data(...): a dict whose 'stats' is a dict or a list
DictSplits ==
  { PyDict([stat |-> PyDict(Stat150), team |-> PyDict(TeamSEA), season |-> PyStr(s2022)]),
    PyDict([stat |-> None]),
    PyDict([stat |-> PyDict(Stat20), team |-> PyStr(sSEA), season |-> None]) }
DictBlocks ==
  {PyDict(EmptyDict), PyDict([career |-> None]), PyDict([season |-> None])}
    \cup {PyDict([career |-> PyDict([splits |-> PyList(q)])]) :
            q \in SeqsUpTo(DictSplits, MaxSplits)}
    \cup {PyDict([season |-> PyDict([splits |-> PyList(q)])]) :
            q \in SeqsUpTo(DictSplits, MaxSplits)}
ListEntries ==
  { PyDict([group |-> PyStr(<<"H", "i", "t", "t", "i", "n", "g">>),
            type |-> PyStr(<<"S", "e", "a", "s", "o", "n">>), season |-> PyStr(s2022),
            stats |-> PyDict(Stat150), currentTeam |-> PyDict(TeamSEA),
            team |-> PyDict([name |-> PyStr(<<"T", "A", "C">>)])]),
    PyDict([group |-> PyStr(sHitting),
            type |-> PyStr(<<"r", "e", "g", "u", "l", "a", "r", "S", "e", "a", "s", "o", "n">>),
            season |-> PyInt(2021), stats |-> PyDict(Stat20), team |-> PyDict(TeamSEA)]),
    PyDict([group |-> PyStr(sHitting), type |-> PyStr(sSeason), stats |-> PyDict(Stat20)]),
    PyDict([group |-> PyStr(sHitting), type |-> PyStr(<<"C", "a", "r", "e", "e", "r">>),
            stats |-> PyDict(Stat150), currentTeam |-> PyStr(sSEA), team |-> PyDict(TeamSEA)]),
    PyDict([group |-> PyStr(<<"P", "i", "t", "c", "h", "i", "n", "g">>),
            type |-> PyStr(sSeason), season |-> PyStr(s2022), stats |-> PyDict(Stat150)]),
    PyDict([group |-> PyStr(sHitting), type |-> PyStr(sSeason),
            season |-> PyStr(<<"a", "l", "l">>), stats |-> PyDict(Stat150)]),
    PyDict([type |-> PyStr(sCareer), season |-> PyInt(2022)]) }
SecondaryResponses ==
  {SourceDown, Ret(None), Ret(PyDict(EmptyDict)), Ret(PyDict([stats |-> PyStr(sHitting)]))}
    \cup {Ret(PyDict([stats |-> b])) : b \in DictBlocks}
    \cup {Ret(PyDict([stats |-> PyList(q)])) : q \in SeqsUpTo(ListEntries, MaxEntries)}

\* the answers a call can meet: a source is consulted only when its module
\* loaded and, for the secondary, when the primary did not return
ResolveWorlds(name) ==
  UNION { {<<P, L>> : L \in IF statsapi /\ (~mlb \/ Swallow(ResolvePrimary(name, P)).k = "fall")
                            THEN LookupResponses ELSE {Unused}} :
          P \in IF mlb THEN PeopleIdResponses ELSE {Unused} }
DisplayWorlds(player_id) ==
  UNION { {<<G, L>> : L \in IF statsapi /\ (~mlb \/ Swallow(DisplayPrimary(player_id, G)).k = "fall")
                            THEN RecResponses ELSE {Unused}} :
          G \in IF mlb THEN PeopleResponses ELSE {Unused} }
StatsWorlds(player_id, season) ==
  UNION { {<<P, S>> : S \in IF /\ statsapi
                               /\ get_hitting_stats_mlbstatsapi(player_id, season, P).out.k = "raise"
                            THEN SecondaryResponses ELSE {Unused}} :
          P \in IF mlb THEN PrimaryResponses ELSE {Unused} }

(***************************************************************************)
(* The request handler: POST /player.                                      *)
(***************************************************************************)
NoRequest == [k |-> "none"]
NoResponse == [k |-> "none"]
NotFetched == [k |-> "none"]
NoCall == [k |-> "none"]

\* redirect(url_for("index"))
RedirectIndex == [k |-> "redirect", to |-> "index"]
\* an exception that leaves the view function: the server answers 500
ServerError(msg) == [k |-> "error", msg |-> msg]

MsgEnterName == <<"Please enter a player name.">>
MsgEnterYear == <<"Please enter a valid season year (e.g., 2022) or choose Career.">>
MsgNotFound(name) == <<"No player found for '">> \o name \o <<"'. Try a more specific name.">>
MsgFetchFailed(e) == <<"Could not fetch stats: ">> \o e
MsgNoStats == <<"No stats found for that selection.">>

\* the submitted forms: each field may be missing
sCalPadded == <<" ", "C", "a", "l", " ">>
FormYears == {<<>>, s2022, <<" ", "2", "0", "2", "2">>, <<"a", "b", "c">>, <<"sup2">>, <<"0">>}
Forms ==
  {[name |-> sCalPadded, mode |-> "season", year |-> y] : y \in FormYears}
    \cup {[name |-> n, mode |-> "career", year |-> <<>>] : n \in {<<>>, <<" ">>, sCal}}
    \cup {[name |-> sCal, mode |-> m, year |-> s2022] : m \in {"career", "weekly"}}
    \cup {[name |-> sCal, year |-> s2022], [mode |-> "season", year |-> s2022],
          [name |-> <<" ">>, mode |-> "season", year |-> <<"a", "b", "c">>],
          [name |-> sCal, mode |-> "season"]}

\* request.form.get(key, default)
FormGet(form, key, default) == IF key \in DOMAIN form THEN form[key] ELSE default

\* a validation that checks the name only
ValidateNameOnly(form) ==
  LET name == Strip(FormGet(form, "name", <<>>))
      mode == FormGet(form, "mode", "career")
      year_raw == Strip(FormGet(form, "year", <<>>))
  IN IF name = <<>> THEN [k |-> "flash", msg |-> MsgEnterName]
     ELSE IF mode # "season" THEN Ret(None)
     ELSE IntOf(PyStr(year_raw))

\* lines 221-234: the flash that ends the request, the season, or the
\* exception of int(year_raw)
Validate(form) ==
  LET name == Strip(FormGet(form, "name", <<>>))
      mode == FormGet(form, "mode", "career")
      year_raw == Strip(FormGet(form, "year", <<>>))
  IN IF name = <<>> THEN [k |-> "flash", msg |-> MsgEnterName]
     ELSE IF mode # "season" THEN Ret(None)
     ELSE IF ~IsDigit(year_raw) THEN [k |-> "flash", msg |-> MsgEnterYear]
     ELSE IntOf(PyStr(year_raw))

\* lines 247-260: what the handler does with the rows it got
AfterFetch(form, name, season, player_id, rows, d) ==
  IF ~Truthy(rows)
  THEN [response |-> RedirectIndex, flashes |-> <<MsgNoStats>>, calls |-> <<>>]
  ELSE [response |-> [k |-> "render", template |-> "player.html", player_name |-> d.out.v,
                      player_id |-> player_id, mode |-> FormGet(form, "mode", "career"),
                      season |-> season, rows |-> rows],
        flashes |-> <<>>,
        calls |-> <<[fn |-> "get_display_name", arg |-> player_id]>> \o d.calls]

\* lines 241-260: the stats fetch f and what follows it
FetchAndAfter(form, name, season, player_id, f, d) ==
  LET c == <<[fn |-> "get_hitting_stats", player_id |-> player_id, season |-> season]>>
             \o f.calls
  IN IF f.out.k = "raise"
     THEN [response |-> RedirectIndex, flashes |-> <<MsgFetchFailed(f.out.msg)>>, calls |-> c]
     ELSE LET a == AfterFetch(form, name, season, player_id, f.out.v, d) IN
          [response |-> a.response, flashes |-> a.flashes, calls |-> c \o a.calls]

Respond(form, resp, fl, cl, ft) ==
  /\ request' = form
  /\ response' = resp
  /\ flashes' = fl
  /\ calls' = cl
  /\ fetch' = ft
  /\ UNCHANGED <<mlb, statsapi, call>>

\* what each component can come back with, over all the sources may answer
ResolveOutcomes(name) ==
  {resolve_player_id(name, w[1], w[2]) : w \in ResolveWorlds(name)}
StatsOutcomes(player_id, season) ==
  {get_hitting_stats(player_id, season, w[1], w[2]) : w \in StatsWorlds(player_id, season)}
DisplayOutcomes(player_id) ==
  {get_display_name(player_id, w[1], w[2]) : w \in DisplayWorlds(player_id)}

\* lines 236-260, for a validated form, with what the three components
\* came back with (r, f, d)
Orchestrate(form, name, season, r, f, d) ==
  LET c1 == <<[fn |-> "resolve_player_id", arg |-> PyStr(name)]>> \o r.calls
      a == FetchAndAfter(form, name, season, r.out.v, f, d)
  IN IF r.out.k = "raise"
     THEN [response |-> ServerError(r.out.msg), flashes |-> <<>>, calls |-> c1,
           fetch |-> NotFetched]
     ELSE IF ~Truthy(r.out.v)
     THEN [response |-> RedirectIndex, flashes |-> <<MsgNotFound(name)>>, calls |-> c1,
           fetch |-> NotFetched]
     ELSE IF a.response.k = "render" /\ d.out.k = "raise"
     THEN [response |-> ServerError(d.out.msg), flashes |-> <<>>, calls |-> c1 \o a.calls,
           fetch |-> [primary |-> f.primary.k, fallback |-> f.fallback.k, out |-> f.out]]
     ELSE [response |-> a.response, flashes |-> a.flashes, calls |-> c1 \o a.calls,
           fetch |-> [primary |-> f.primary.k, fallback |-> f.fallback.k, out |-> f.out]]

\* the components a request gets to, and what each can come back with
StepsAfterResolve(r, Fs, Ds) ==
  UNION { IF f.out.k = "raise" \/ ~Truthy(f.out.v) THEN {<<r, f, Unused>>}
          ELSE {<<r, f, d>> : d \in Ds} : f \in Fs }
StepsOf(name, season) ==
  UNION { IF r.out.k = "raise" \/ ~Truthy(r.out.v) THEN {<<r, Unused, Unused>>}
          ELSE UNION { StepsAfterResolve(r, x[1], x[2]) :
                       x \in {<<StatsOutcomes(r.out.v, season), DisplayOutcomes(r.out.v)>>} } :
          r \in ResolveOutcomes(name) }

\* POST /player
PlayerLookup ==
  /\ response = NoResponse
  /\ call = NoCall
  /\ \E form \in Forms :
       LET v == Validate(form)
           name == Strip(FormGet(form, "name", <<>>))
       IN IF v.k = "flash" THEN Respond(form, RedirectIndex, <<v.msg>>, <<>>, NotFetched)
          ELSE IF v.k = "raise" THEN Respond(form, ServerError(v.msg), <<>>, <<>>, NotFetched)
          ELSE \E w \in StepsOf(name, v.v) :
                 LET o == Orchestrate(form, name, v.v, w[1], w[2], w[3])
                 IN Respond(form, o.response, o.flashes, o.calls, o.fetch)

\* GET /
Index ==
  /\ response = NoResponse
  /\ call = NoCall
  /\ Respond([k |-> "GET /"], [k |-> "render", template |-> "index.html"], <<>>, <<>>,
             NotFetched)

\* the response is sent; the worker waits for the next request
Deliver ==
  /\ response # NoResponse
  /\ Respond(NoRequest, NoResponse, <<>>, <<>>, NotFetched)

(***************************************************************************)
(* Direct calls of the three component functions.                          *)
(***************************************************************************)
CallArgs == {None, PyInt(2022), PyInt(0)}

Called(record) ==
  /\ call' = record
  /\ UNCHANGED <<mlb, statsapi, request, response, flashes, calls, fetch>>

\* the record of a direct call: what was asked, what the sources answered
\* (w), what came back (o)
ComponentCall(fn, arg, w, o) ==
  [fn |-> fn, arg |-> arg, primary |-> w[1], secondary |-> w[2], out |-> o.out,
   calls |-> o.calls]
StatsCall(player_id, season, w, o) ==
  [fn |-> "get_hitting_stats", player_id |-> player_id, season |-> season,
   primary |-> w[1], secondary |-> w[2], out |-> o.out,
   primaryOut |-> o.primary, fallbackOut |-> o.fallback, calls |-> o.calls]

CallResolvePlayerId ==
  /\ call = NoCall
  /\ response = NoResponse
  /\ \E w \in ResolveWorlds(sCal) :
       Called(ComponentCall("resolve_player_id", PyStr(sCal), w,
                            resolve_player_id(sCal, w[1], w[2])))

CallGetDisplayName ==
  /\ call = NoCall
  /\ response = NoResponse
  /\ \E w \in DisplayWorlds(idOhtani) :
       Called(ComponentCall("get_display_name", idOhtani, w,
                            get_display_name(idOhtani, w[1], w[2])))

CallGetHittingStats ==
  /\ call = NoCall
  /\ response = NoResponse
  /\ \E season \in CallArgs :
       \E w \in StatsWorlds(idOhtani, season) :
         Called(StatsCall(idOhtani, season, w,
                          get_hitting_stats(idOhtani, season, w[1], w[2])))

\* the caller has its answer
Return ==
  /\ call # NoCall
  /\ Called(NoCall)

Init ==
  /\ mlb \in BOOLEAN
  /\ statsapi \in BOOLEAN
  /\ request = NoRequest
  /\ response = NoResponse
  /\ flashes = <<>>
  /\ calls = <<>>
  /\ fetch = NotFetched
  /\ call = NoCall

Next == Index \/ PlayerLookup \/ Deliver

Spec == Init /\ [][Next]_vars

LibNext == CallResolvePlayerId \/ CallGetDisplayName \/ CallGetHittingStats \/ Return

LibSpec == Init /\ [][LibNext]_vars

(***************************************************************************)
(* Properties.                                                             *)
(***************************************************************************)
\* the number of entries of a call log made to fn
CountFn(log, fn) == Cardinality({i \in 1..Len(log) : log[i].fn = fn})

IsStatsCall == call # NoCall /\ call.fn = "get_hitting_stats"
IsResolveCall == call # NoCall /\ call.fn = "resolve_player_id"
IsDisplayCall == call # NoCall /\ call.fn = "get_display_name"

\* how the two paths end on what the sources answered in the recorded call
PrimaryPathOut ==
  get_hitting_stats_mlbstatsapi(call.player_id, call.season, call.primary).out
FallbackPathOut ==
  get_hitting_stats_statsapi(call.player_id, call.season, call.secondary).out

\* C1: in every call of get_hitting_stats the primary path is entered first
\* and exactly once and the primary source is asked at most once; the
\* fallback path and the secondary source are used at most once, and only
\* when the primary path raised; whenever the primary path returns (also
\* the empty list of an absent or empty scope block) that value is the
\* result and the secondary source is not called.
PrimaryFirstFallbackOnlyOnError ==
  IsStatsCall =>
    /\ call.calls[1].fn = "_get_hitting_stats_mlbstatsapi"
    /\ CountFn(call.calls, "_get_hitting_stats_mlbstatsapi") = 1
    /\ CountFn(call.calls, "mlb.get_player_stats") = IF mlb THEN 1 ELSE 0
    /\ CountFn(call.calls, "_get_hitting_stats_statsapi") <= 1
    /\ CountFn(call.calls, "statsapi.player_stat_data") <= 1
    /\ CountFn(call.calls, "_get_hitting_stats_statsapi") = 1 => PrimaryPathOut.k = "raise"
    /\ PrimaryPathOut.k = "return" =>
         /\ call.out = PrimaryPathOut
         /\ CountFn(call.calls, "_get_hitting_stats_statsapi") = 0
         /\ CountFn(call.calls, "statsapi.player_stat_data") = 0

\* a career call whose primary answer has an empty scope block, with the
\* secondary source loaded: the empty list is the result
EmptyPrimaryIsTheResult ==
  /\ IsStatsCall
  /\ statsapi
  /\ call.season = None
  /\ call.primary = Ret(PyDict([hitting |-> PyDict([career |-> None])]))
  /\ call.out = Ret(PyList(<<>>))
  /\ Len(call.calls) = 2

\* C2: get_hitting_stats raises exactly when the primary path and the
\* fallback path both raise; the error's message then contains the message
\* of each of the two failures; otherwise a list of rows is returned.
CombinedErrorIffBothFail ==
  IsStatsCall =>
    /\ call.out.k = "raise" <=>
         (PrimaryPathOut.k = "raise" /\ FallbackPathOut.k = "raise")
    /\ call.out.k = "raise" =>
         /\ Contains(call.out.msg, PrimaryPathOut.msg)
         /\ Contains(call.out.msg, FallbackPathOut.msg)
    /\ call.out.k # "raise" => call.out.k = "return" /\ call.out.v.t = "list"

\* the primary source is down and the secondary answers None
BothPathsRaised ==
  /\ IsStatsCall
  /\ call.primary = SourceDown
  /\ call.secondary = Ret(None)
  /\ call.out = Raise(<<"Primary failed: ", "HTTP 503", "; Fallback failed: ",
                        "object has no attribute">>)

\* a source that is not loaded, raises, or returns nothing
Nothing(answer) == answer = Unused \/ answer.k = "raise" \/ ~Truthy(answer.v)

\* C3: resolve_player_id and get_display_name always return; when both
\* sources fail or find nothing resolve_player_id returns None and
\* get_display_name returns the id as text.
LookupsNeverRaise ==
  /\ IsResolveCall =>
       /\ call.out.k = "return"
       /\ Nothing(call.primary) /\ Nothing(call.secondary) => call.out.v = None
  /\ IsDisplayCall =>
       /\ call.out.k = "return"
       /\ Nothing(call.primary) /\ Nothing(call.secondary) => call.out.v = PyStr(s660271)

\* both sources are loaded and both raise: the id comes back as text
DisplayNameOfLastResort ==
  /\ IsDisplayCall
  /\ call.primary = SourceDown
  /\ call.secondary = SourceDown
  /\ call.out = Ret(PyStr(s660271))

\* the primary source answered with a first match that is an id
PrimaryMatched ==
  /\ call.primary # Unused
  /\ call.primary.k = "return"
  /\ Truthy(call.primary.v)
  /\ IntOf(call.primary.v.l[1]).k = "return"

\* the identifier field of a record: 'id', or else 'player_id'
IdField(rec) ==
  IF "id" \in DOMAIN rec.d /\ Truthy(rec.d["id"]) THEN rec.d["id"] ELSE Get(rec.d, "player_id")

\* the secondary source answered with a first record that carries an id
SecondaryMatched ==
  /\ call.secondary # Unused
  /\ call.secondary.k = "return"
  /\ Truthy(call.secondary.v)
  /\ call.secondary.v.l[1].t = "dict"
  /\ IntOf(IdField(call.secondary.v.l[1])).k = "return"

\* C4: when the primary source's first match is an id, resolve_player_id
\* returns it; otherwise, when the secondary lookup's first record carries
\* an id under 'id' or else 'player_id', it returns that one; in both cases
\* the result is not None.
FirstMatchOfFirstSource ==
  IsResolveCall =>
    /\ PrimaryMatched => call.out = IntOf(call.primary.v.l[1])
    /\ ~PrimaryMatched /\ SecondaryMatched =>
         call.out = IntOf(IdField(call.secondary.v.l[1]))
    /\ PrimaryMatched \/ SecondaryMatched => call.out.k = "return" /\ call.out.v # None

\* the primary finds nothing, the first of two secondary records has its
\* id under 'player_id'
SecondaryFirstRecordWins ==
  /\ IsResolveCall
  /\ call.primary = Ret(PyList(<<>>))
  /\ call.secondary = Ret(PyList(<<PyDict([player_id |-> idRaleigh]),
                                   PyDict([id |-> PyStr(s660271)])>>))
  /\ call.out = Ret(idRaleigh)

\* the fallback path ran and the secondary answered with a list-shaped 'stats'
ListShapeUsed ==
  /\ PrimaryPathOut.k = "raise"
  /\ call.secondary # Unused
  /\ call.secondary.k = "return"
  /\ call.secondary.v.t = "dict"
  /\ Get(call.secondary.v.d, "stats").t = "list"

\* the splits or entries of the answer the returned rows were built from
ItemsUsed ==
  IF PrimaryPathOut.k = "return"
  THEN call.primary.v.d["hitting"].d["season"].a["splits"].l
  ELSE IF ListShapeUsed THEN call.secondary.v.d["stats"].l
  ELSE call.secondary.v.d["stats"].d["season"].d["splits"].l

\* the season a split or an entry carries (None when it carries none)
ItemSeason(item) == IF item.t = "obj" THEN GetAttr(item, "season") ELSE Get(item.d, "season")

Mentions(v, word) == v.t = "str" /\ Contains(Lower(v.s), word)

ScopeWord == IF call.season = None THEN sCareer ELSE sSeason

\* the entry is of the hitting group and of the requested scope
OfGroupAndScope(e) ==
  Mentions(Get(e.d, "group"), sHitting) /\ Mentions(Get(e.d, "type"), ScopeWord)

\* the entry passes the three filters, as C10 states them
QualifiesStrict(e) ==
  /\ OfGroupAndScope(e)
  /\ call.season # None => IntOf(Get(e.d, "season")) = Ret(call.season)

\* the same, an entry without a season passing the year filter
QualifiesLenient(e) ==
  /\ OfGroupAndScope(e)
  /\ call.season # None /\ Get(e.d, "season") # None =>
       IntOf(Get(e.d, "season")) = Ret(call.season)

\* an entry of the requested group and scope whose season is no integer
Unreadable(e) ==
  /\ OfGroupAndScope(e)
  /\ call.season # None
  /\ Get(e.d, "season") # None
  /\ IntOf(Get(e.d, "season")).k = "raise"

\* the name of the entry's 'currentTeam', or else of its 'team'
TeamOf(e) ==
  IF Get(e.d, "currentTeam").t = "dict" /\ Truthy(Get(Get(e.d, "currentTeam").d, "name"))
  THEN Get(e.d, "currentTeam").d["name"]
  ELSE IF Get(e.d, "team").t = "dict" THEN Get(Get(e.d, "team").d, "name")
  ELSE None

\* the entry's 'stats' plus 'season' when present plus 'team_name' when found
ExpectedRow(e) ==
  LET stats == IF Get(e.d, "stats").t = "dict" THEN e.d["stats"].d ELSE EmptyDict
      seasoned == IF "season" \in DOMAIN e.d /\ e.d["season"] # None
                  THEN [k \in DOMAIN stats \cup {"season"} |->
                          IF k = "season" THEN e.d["season"] ELSE stats[k]]
                  ELSE stats
  IN IF Truthy(TeamOf(e))
     THEN [k \in DOMAIN seasoned \cup {"team_name"} |->
             IF k = "team_name" THEN TeamOf(e) ELSE seasoned[k]]
     ELSE seasoned

ExpectedRows(kept) == [i \in 1..Len(kept) |-> ExpectedRow(kept[i])]

\* C10 as stated: on the list shape one row per entry that passes the
\* group, scope and year filters, in source order.
ListShapeRowsStrict ==
  IsStatsCall /\ ListShapeUsed =>
    call.out = Ret(PyList(ExpectedRows(SelectSeq(call.secondary.v.d["stats"].l,
                                                 QualifiesStrict))))

\* C10, amended: an entry without a season passes the year filter, and an
\* entry of the requested group and scope whose season is no integer makes
\* the fallback, and so get_hitting_stats, raise.
ListShapeRowsLenient ==
  IsStatsCall /\ ListShapeUsed =>
    IF \E i \in 1..Len(call.secondary.v.d["stats"].l) :
         Unreadable(call.secondary.v.d["stats"].l[i])
    THEN call.out.k = "raise" /\ FallbackPathOut.k = "raise"
    ELSE call.out = Ret(PyList(ExpectedRows(SelectSeq(call.secondary.v.d["stats"].l,
                                                      QualifiesLenient))))

\* the primary is down for season 2022 and the list holds the 2022 entry of
\* the Mariners followed by an entry of 2021: one row comes back
OneRowOfTwoEntries ==
  /\ IsStatsCall
  /\ call.season = PyInt(2022)
  /\ call.primary = SourceDown
  /\ ListShapeUsed
  /\ Len(call.secondary.v.d["stats"].l) = 2
  /\ Get(call.secondary.v.d["stats"].l[2].d, "season") = PyInt(2021)
  /\ call.out = Ret(PyList(<<[hits |-> PyInt(150), season |-> PyStr(s2022),
                              team_name |-> PyStr(sSEA)]>>))

(***************************************************************************)
(* Properties of the request handler.                                      *)
(***************************************************************************)
\* a submission to POST /player has been answered
IsPost == response # NoResponse /\ "k" \notin DOMAIN request

SubmittedName == Strip(FormGet(request, "name", <<>>))
SubmittedYear == Strip(FormGet(request, "year", <<>>))
SeasonMode == FormGet(request, "mode", "career") = "season"

\* the submission fails the handler's validation
FailsValidation ==
  IsPost /\ (SubmittedName = <<>> \/ (SeasonMode /\ ~IsDigit(SubmittedYear)))

\* C6: a submission that fails validation (name empty after trimming, or
\* season mode with a year that is not digits only) ends with one message
\* and the redirect to the form, no component and no source having been
\* called.
ValidationFailureShortCircuits ==
  FailsValidation =>
    /\ response = RedirectIndex
    /\ flashes = <<IF SubmittedName = <<>> THEN MsgEnterName ELSE MsgEnterYear>>
    /\ calls = <<>>

\* season mode with the year "abc"
YearAbcRejected ==
  /\ request = [name |-> sCalPadded, mode |-> "season", year |-> <<"a", "b", "c">>]
  /\ response = RedirectIndex
  /\ flashes = <<MsgEnterYear>>
  /\ calls = <<>>

IsComponent(c) == c.fn \in {"resolve_player_id", "get_hitting_stats", "get_display_name"}

\* the components the handler called, in the order of their calls
ComponentsCalled ==
  LET cs == SelectSeq(calls, IsComponent) IN [i \in 1..Len(cs) |-> cs[i].fn]

ComponentOrder == <<"resolve_player_id", "get_hitting_stats", "get_display_name">>

\* C7 as stated: a submission that passes validation calls resolve, fetch
\* and display name in this order, each at most once and each only when the
\* one before succeeded; the page is rendered only after the display-name
\* lookup, and every other path ends in exactly one flash and the redirect.
OrchestrationOrder ==
  IsPost /\ ~FailsValidation =>
    /\ Len(ComponentsCalled) >= 1
    /\ ComponentsCalled = SubSeq(ComponentOrder, 1, Len(ComponentsCalled))
    /\ \A i \in 1..Len(calls) :
         calls[i].fn = "get_hitting_stats" => Truthy(calls[i].player_id)
    /\ Len(ComponentsCalled) = 3 =>
         fetch # NotFetched /\ fetch.out.k = "return" /\ Truthy(fetch.out.v)
    /\ response.k = "render" => Len(ComponentsCalled) = 3
    /\ response.k # "render" => response = RedirectIndex /\ Len(flashes) = 1

\* the handler flashed the fetch-failure message
FetchFailureFlashed ==
  \E i \in 1..Len(flashes) :
    Len(flashes[i]) >= 1 /\ flashes[i][1] = "Could not fetch stats: "

\* C8: an empty result of the stats fetch is reported with the "no stats
\* found" message and not as a fetch failure; the fetch-failure message,
\* embedding the combined error, is flashed exactly when the primary path
\* and the fallback path both raised.
EmptyResultIsNotAFetchFailure ==
  IsPost =>
    /\ fetch # NotFetched /\ fetch.out.k = "return" /\ ~Truthy(fetch.out.v) =>
         response = RedirectIndex /\ flashes = <<MsgNoStats>>
    /\ FetchFailureFlashed <=>
         fetch # NotFetched /\ fetch.primary = "raise" /\ fetch.fallback = "raise"
    /\ FetchFailureFlashed =>
         /\ response = RedirectIndex
         /\ fetch.out.k = "raise"
         /\ flashes = <<MsgFetchFailed(fetch.out.msg)>>
         /\ fetch.out.msg[1] = "Primary failed: "

\* the primary path returned the empty sequence for a resolved id
NoStatsReported ==
  /\ IsPost
  /\ fetch # NotFetched
  /\ fetch.primary = "return"
  /\ fetch.out = Ret(PyList(<<>>))
  /\ response = RedirectIndex
  /\ flashes = <<MsgNoStats>>

\* the season the handler reads from the submitted year
SubmittedSeason == IntOf(PyStr(SubmittedYear))

\* C9: a stats query carries a season exactly when the submitted mode is
\* "season", and then the submitted year; the primary and the secondary
\* source are asked for type "season" with that year in that case, and for
\* type "career" without a season argument in every other case.
QueryCarriesSeasonIffSeasonMode ==
  IsPost =>
    \A i \in 1..Len(calls) :
      /\ calls[i].fn = "get_hitting_stats" =>
           /\ calls[i].season # None <=> SeasonMode
           /\ SeasonMode => SubmittedSeason = Ret(calls[i].season)
      /\ calls[i].fn = "mlb.get_player_stats" =>
           IF SeasonMode
           THEN /\ calls[i].stats = <<"season">>
                /\ "season" \in DOMAIN calls[i]
                /\ SubmittedSeason = Ret(calls[i].season)
           ELSE calls[i].stats = <<"career">> /\ "season" \notin DOMAIN calls[i]
      /\ calls[i].fn = "statsapi.player_stat_data" =>
           IF SeasonMode
           THEN /\ calls[i].type = "season"
                /\ "season" \in DOMAIN calls[i]
                /\ SubmittedSeason = Ret(calls[i].season)
           ELSE calls[i].type = "career" /\ "season" \notin DOMAIN calls[i]

\* season mode with the year "0": both sources are asked for season 0
SeasonZeroAskedOfBothSources ==
  /\ IsPost
  /\ SeasonMode
  /\ SubmittedYear = <<"0">>
  /\ \E i \in 1..Len(calls) :
       /\ calls[i].fn = "mlb.get_player_stats"
       /\ calls[i].stats = <<"season">>
       /\ calls[i].season = PyInt(0)
  /\ \E i \in 1..Len(calls) :
       /\ calls[i].fn = "statsapi.player_stat_data"
       /\ calls[i].type = "season"
       /\ calls[i].season = PyInt(0)

=============================================================================
